---------------------------- MODULE Spec2Model ----------------------------
(* Model of scripts/ec2.py: the instance cache (get_cache_filename,        *)
(* is_cache_valid, load_cache, save_cache, list_ec2_instances) and the     *)
(* connection resolver (get_ssh_credentials, guess_ssh_user,               *)
(* ssh_to_instance), and the ssh command of main with                     *)
(* find_instance_by_name.                                                  *)
(*                                                                         *)
(* Python strings are tuples of one-character strings.  None and the empty *)
(* string are both written <<>>: every use of an optional value in the     *)
(* script is a truth test, under which the two behave alike.               *)
EXTENDS Integers, Sequences, FiniteSets, TLC

VARIABLES
    now,          \* time.time(), whole seconds
    ticks,        \* number of clock advances so far (bounds the run)
    fs,           \* the cache files in /tmp: path -> [exists, mtime, content]
    pc,           \* per invocation: position inside list_ec2_instances
    loc,          \* per invocation: the locals of list_ec2_instances
    wrote,        \* per file: what the last save_cache to run undisturbed stored
    fpIn,         \* get_cache_filename: the two argument triples compared
    fpOut,        \* get_cache_filename: the two file names derived
    session,      \* boto3.Session(): ambient region and credentials
    inst,         \* ssh_to_instance: the instance record
    cli,          \* ssh_to_instance: user, key_file, use_tmux arguments
    env,          \* os.environ: EC2_USERNAME, EC2_SSHKEY, TMUX
    disk,         \* the key paths for which os.path.exists is true
    ip,           \* ssh_to_instance: the address selected
    ssh_attempts, \* ssh_to_instance: the credential candidates
    idx,          \* ssh_to_instance: position of the for loop (1-based)
    spc,          \* ssh_to_instance: control position
    runs,         \* the subprocess.run calls made: <<kind, candidate position>>
    sret,         \* ssh_to_instance: the value returned, and the message printed
    listed,       \* main ssh: what list_ec2_instances returns to find_instance_by_name
    name_pattern, \* main ssh: args.name_pattern
    matches,      \* main ssh: what find_instance_by_name returned
    mpc,          \* main ssh: control position
    mexit         \* main ssh: the exit status and the message printed with it

cacheVars == <<now, ticks, fs, pc, loc, wrote>>
fpVars    == <<fpIn, fpOut>>
sshVars   == <<inst, cli, env, disk, ip, ssh_attempts, idx, spc, runs, sret>>
mainVars  == <<listed, name_pattern, matches, mpc, mexit>>
vars      == <<now, ticks, fs, pc, loc, wrote, fpIn, fpOut, session,
               inst, cli, env, disk, ip, ssh_attempts, idx, spc, runs, sret,
               listed, name_pattern, matches, mpc, mexit>>

None == <<>>

Truthy(x) == x # <<>>

-----------------------------------------------------------------------------
(* get_cache_filename *)

RECURSIVE ReplaceChar(_, _, _)
ReplaceChar(s, old, new) ==
    IF s = <<>> THEN <<>>
    ELSE <<IF Head(s) = old THEN new ELSE Head(s)>> \o ReplaceChar(Tail(s), old, new)

\* hashlib.md5(text.encode()).hexdigest()[:8], taken to be free of collisions:
\* the digest is written as the text hashed between two marks no text holds.
Md5Hex8(text) == <<"md5(">> \o text \o <<")">>

Str_default == <<"d", "e", "f", "a", "u", "l", "t">>
Str_nocreds == <<"n", "o", "c", "r", "e", "d", "s">>
Str_prefix  == <<"/tmp/ec2_cache_">>
Str_suffix  == <<".json">>

\* lines 105-114: the region used when the argument is empty
EffectiveRegion(region, sess) ==
    IF Truthy(region) THEN region
    ELSE IF Truthy(sess.region_name) THEN sess.region_name
    ELSE Str_default

\* lines 117-130: the text handed to the hash, or the sentinel
CredInput(access_key, secret_key) == access_key \o secret_key

CredHash(access_key, secret_key, sess) ==
    IF Truthy(access_key) /\ Truthy(secret_key)
    THEN Md5Hex8(CredInput(access_key, secret_key))
    ELSE IF sess.has_creds
         THEN Md5Hex8(CredInput(sess.access_key, sess.secret_key))
         ELSE Str_nocreds

\* line 133
SafeRegion(region) == ReplaceChar(region, "-", "_")

get_cache_filename(region, access_key, secret_key, sess) ==
    Str_prefix \o SafeRegion(EffectiveRegion(region, sess)) \o <<"_">>
        \o CredHash(access_key, secret_key, sess) \o Str_suffix

\* The argument triples tried: regions that differ only in '-' against '_',
\* every key over KeyAlphabet up to MaxKeyLen characters, and the empty value.
KeyAlphabet == {"a", "b"}
MaxKeyLen == 2

RECURSIVE StrsUpTo(_, _)
StrsUpTo(alphabet, n) ==
    IF n = 0 THEN {<<>>}
    ELSE LET shorter == StrsUpTo(alphabet, n - 1)
         IN  shorter \cup {s \o <<c>> : s \in shorter, c \in alphabet}

FpRegions == {None, <<"a", "-", "b">>, <<"a", "_", "b">>}
FpKeys    == StrsUpTo(KeyAlphabet, MaxKeyLen)
FpTriples == [region : FpRegions, access_key : FpKeys, secret_key : FpKeys]

Sessions ==
    { [region_name |-> <<"a", "-", "b">>, has_creds |-> TRUE,
       access_key |-> <<"a">>, secret_key |-> <<"b">>],
      [region_name |-> None, has_creds |-> FALSE,
       access_key |-> None, secret_key |-> None] }

FilenameOf(t, sess) == get_cache_filename(t.region, t.access_key, t.secret_key, sess)

FpIdle == fpIn = <<>> /\ fpOut = <<>>

FpInit ==
    /\ fpIn \in FpTriples \X FpTriples
    /\ fpOut = <<>>

\* two calls of get_cache_filename in the same environment
FpDerive ==
    /\ fpIn # <<>>
    /\ fpOut = <<>>
    /\ fpOut' = <<FilenameOf(fpIn[1], session), FilenameOf(fpIn[2], session)>>
    /\ UNCHANGED <<fpIn, session, cacheVars, sshVars, mainVars>>

-----------------------------------------------------------------------------
(* The instance cache: is_cache_valid, load_cache, save_cache and           *)
(* list_ec2_instances, run by two invocations of the script that share the *)
(* files in /tmp.                                                          *)

Procs == {"p1", "p2"}

Ttl == 300

\* The clock advances by one second or by just under the TTL, MaxTicks times.
TickSteps == {1, Ttl - 1}
MaxTicks == 2

\* describe_instances returns up to MaxInst instances; what varies between two
\* calls is the status the instances are in.
MaxInst == 2
Statuses == {"running", "stopped"}

InstanceInfo(i, status) == [id |-> i, status |-> status]

Listing(n, status) == [i \in 1..n |-> InstanceInfo(i, status)]

Listings == {Listing(n, s) : n \in 0..MaxInst, s \in Statuses}

\* The calls made: list_ec2_instances(region, access_key, secret_key, use_cache)
CallArgs ==
    { [region |-> <<"a", "-", "b">>, access_key |-> None, secret_key |-> None] }

\* the environment the invocations of the cache run in
CacheSession ==
    [region_name |-> <<"a", "-", "b">>, has_creds |-> TRUE,
     access_key |-> <<"a">>, secret_key |-> <<"b">>]

CacheFiles == {FilenameOf(a, CacheSession) : a \in CallArgs}

\* A file is a sequence of chunks.  json.dump(data, f, indent=2) writes the
\* opening of the object up to "instances": [ , then one chunk per instance,
\* then the closing ]} .
NoRec == [id |-> 0, status |-> ""]
Tok(t, ts, region, rec) == [t |-> t, ts |-> ts, region |-> region, rec |-> rec]

HdrTok(ts, region) == Tok("hdr", ts, region, NoRec)
RecTok(rec)        == Tok("rec", 0, None, rec)
EndTok             == Tok("end", 0, None, NoRec)
NulTok             == Tok("nul", 0, None, NoRec)
\* content other writers of /tmp can leave: a JSON array, and a JSON object
\* that has no "instances" member
ArrayTok           == Tok("array", 0, None, NoRec)
NoInstTok          == Tok("noinst", 0, None, NoRec)

ForeignContents == {<<ArrayTok>>, <<NoInstTok>>}

NoFile == [exists |-> FALSE, mtime |-> 0, content |-> <<>>]

\* lines 181-187: the text json.dump produces for data
JsonDump(data) ==
    <<HdrTok(data.timestamp, data.region)>>
        \o [i \in 1..Len(data.instances) |-> RecTok(data.instances[i])]
        \o <<EndTok>>

\* line 166: json.load.  "error" is json.JSONDecodeError.
JsonLoad(content) ==
    IF content = <<ArrayTok>> THEN [kind |-> "array", instances |-> <<>>]
    ELSE IF content = <<NoInstTok>> THEN [kind |-> "object_without_instances", instances |-> <<>>]
    ELSE IF /\ Len(content) >= 2
            /\ content[1].t = "hdr"
            /\ content[Len(content)].t = "end"
            /\ \A i \in 2..(Len(content) - 1) : content[i].t = "rec"
         THEN [kind |-> "object",
               instances |-> [i \in 1..(Len(content) - 2) |-> content[i + 1].rec]]
         ELSE [kind |-> "error", instances |-> <<>>]

\* is_cache_valid with "file_age <= ttl"
is_cache_valid_inclusive(file, time) ==
    IF ~file.exists THEN FALSE
    ELSE (time - file.mtime) <= Ttl

\* lines 137-152
is_cache_valid(file, time) ==
    IF ~file.exists THEN FALSE
    ELSE (time - file.mtime) < Ttl

\* lines 164-169: "value" is a list returned, "none" is None returned,
\* "raise" is an exception that leaves load_cache (data.get on a list is an
\* AttributeError, which the except clause does not name).
load_cache(file) ==
    IF ~file.exists THEN [outcome |-> "none", val |-> <<>>]
    ELSE LET data == JsonLoad(file.content)
         IN  CASE data.kind = "error"  -> [outcome |-> "none", val |-> <<>>]
               [] data.kind = "array"  -> [outcome |-> "raise", val |-> <<>>]
               [] data.kind = "object_without_instances" -> [outcome |-> "value", val |-> <<>>]
               [] OTHER                -> [outcome |-> "value", val |-> data.instances]

\* f.write at offset off of a file opened with 'w': bytes past the end of the
\* file leave a hole of NULs before them
WriteAt(content, off, tok) ==
    IF off < Len(content) THEN [content EXCEPT ![off + 1] = tok]
    ELSE content \o [i \in 1..(off - Len(content)) |-> NulTok] \o <<tok>>

\* wrote[f]: "saved" with the instances given to the last save_cache call that
\* opened f, wrote every chunk and closed it with nobody else writing to f in
\* between and since; "writing" while such a call is under way.
NotSaved == [st |-> "none", by |-> "", val |-> <<>>]

NoRes == [kind |-> "none", val |-> <<>>]

\* api_calls counts the describe_instances calls of the invocation (line 233)
IdleLoc ==
    [cache_file |-> <<>>, region |-> <<>>, use_cache |-> TRUE, instances |-> <<>>,
     checked_at |-> 0, stamp |-> 0, off |-> 0, res |-> NoRes, api_calls |-> 0]

CacheIdle ==
    /\ now = 0 /\ ticks = 0
    /\ fs = [f \in CacheFiles |-> NoFile]
    /\ pc = [p \in Procs |-> "idle"]
    /\ loc = [p \in Procs |-> IdleLoc]
    /\ wrote = [f \in CacheFiles |-> NotSaved]

\* lines 222-229, first half: the file name is derived and is_cache_valid
\* decides between load_cache and the fetch; checked_at is the clock value
\* line 151 reads
Call(p, a, uc) ==
    /\ pc[p] = "idle"
    /\ LET file == FilenameOf(a, session)
       IN  /\ loc' = [loc EXCEPT ![p] =
                        [IdleLoc EXCEPT !.cache_file = file,
                                        !.region = EffectiveRegion(a.region, session),
                                        !.use_cache = uc,
                                        !.checked_at = IF uc THEN now ELSE 0]]
           /\ pc' = [pc EXCEPT ![p] =
                        IF uc /\ is_cache_valid(fs[file], now) THEN "load" ELSE "fetch"]
    /\ UNCHANGED <<now, ticks, fs, wrote, session, fpVars, sshVars, mainVars>>

\* Load that renews the modification time of the file on a hit
Load_Renews(p) ==
    /\ pc[p] = "load"
    /\ LET got == load_cache(fs[loc[p].cache_file])
       IN  CASE got.outcome = "value" ->
                  /\ pc' = [pc EXCEPT ![p] = "return"]
                  /\ loc' = [loc EXCEPT ![p].res = [kind |-> "cached", val |-> got.val]]
                  /\ fs' = [fs EXCEPT ![loc[p].cache_file].mtime = now]
             [] got.outcome = "none" ->
                  /\ pc' = [pc EXCEPT ![p] = "fetch"]
                  /\ UNCHANGED <<loc, fs>>
             [] OTHER ->
                  /\ pc' = [pc EXCEPT ![p] = "return"]
                  /\ loc' = [loc EXCEPT ![p].res = [kind |-> "raised", val |-> <<>>]]
                  /\ UNCHANGED fs
    /\ UNCHANGED <<now, ticks, wrote, session, fpVars, sshVars, mainVars>>

\* lines 226-229: load_cache; a list is returned to the caller, None falls
\* through to the fetch, an exception leaves list_ec2_instances
Load(p) ==
    /\ pc[p] = "load"
    /\ LET got == load_cache(fs[loc[p].cache_file])
       IN  CASE got.outcome = "value" ->
                  /\ pc' = [pc EXCEPT ![p] = "return"]
                  /\ loc' = [loc EXCEPT ![p].res = [kind |-> "cached", val |-> got.val]]
             [] got.outcome = "none" ->
                  /\ pc' = [pc EXCEPT ![p] = "fetch"]
                  /\ UNCHANGED loc
             [] OTHER ->
                  /\ pc' = [pc EXCEPT ![p] = "return"]
                  /\ loc' = [loc EXCEPT ![p].res = [kind |-> "raised", val |-> <<>>]]
    /\ UNCHANGED <<now, ticks, fs, wrote, session, fpVars, sshVars, mainVars>>

\* FetchOk with save_cache called whatever use_cache is
FetchOk_SavesAlways(p, listing) ==
    /\ pc[p] = "fetch"
    /\ pc' = [pc EXCEPT ![p] = "open"]
    /\ loc' = [loc EXCEPT ![p].instances = listing, ![p].stamp = now,
                                  ![p].api_calls = loc[p].api_calls + 1]
    /\ UNCHANGED <<now, ticks, fs, wrote, session, fpVars, sshVars, mainVars>>

\* lines 232-256: describe_instances answers with a listing; with use_cache
\* save_cache starts (line 182 reads the clock), without it the listing is
\* returned at once
FetchOk(p, listing) ==
    /\ pc[p] = "fetch"
    /\ IF loc[p].use_cache
       THEN /\ pc' = [pc EXCEPT ![p] = "open"]
            /\ loc' = [loc EXCEPT ![p].instances = listing, ![p].stamp = now,
                                  ![p].api_calls = loc[p].api_calls + 1]
       ELSE /\ pc' = [pc EXCEPT ![p] = "return"]
            /\ loc' = [loc EXCEPT ![p].instances = listing,
                                  ![p].res = [kind |-> "fetched", val |-> listing],
                                  ![p].api_calls = loc[p].api_calls + 1]
    /\ UNCHANGED <<now, ticks, fs, wrote, session, fpVars, sshVars, mainVars>>

\* lines 233, 258-260: describe_instances raises ClientError, sys.exit(1)
FetchFail(p) ==
    /\ pc[p] = "fetch"
    /\ pc' = [pc EXCEPT ![p] = "return"]
    /\ loc' = [loc EXCEPT ![p].res = [kind |-> "exit", val |-> <<>>],
                          ![p].api_calls = loc[p].api_calls + 1]
    /\ UNCHANGED <<now, ticks, fs, wrote, session, fpVars, sshVars, mainVars>>

\* OpenOk with a mode that does not truncate ('r+')
OpenOk_NoTruncate(p) ==
    /\ pc[p] = "open"
    /\ fs' = [fs EXCEPT ![loc[p].cache_file] =
                [exists |-> TRUE, mtime |-> now, content |-> fs[loc[p].cache_file].content]]
    /\ pc' = [pc EXCEPT ![p] = "write"]
    /\ loc' = [loc EXCEPT ![p].off = 0]
    /\ wrote' = [wrote EXCEPT ![loc[p].cache_file] = [st |-> "writing", by |-> p, val |-> <<>>]]
    /\ UNCHANGED <<now, ticks, session, fpVars, sshVars, mainVars>>

\* line 186: open(cache_file, 'w') truncates the file
OpenOk(p) ==
    /\ pc[p] = "open"
    /\ fs' = [fs EXCEPT ![loc[p].cache_file] =
                [exists |-> TRUE, mtime |-> now, content |-> <<>>]]
    /\ pc' = [pc EXCEPT ![p] = "write"]
    /\ loc' = [loc EXCEPT ![p].off = 0]
    /\ wrote' = [wrote EXCEPT ![loc[p].cache_file] = [st |-> "writing", by |-> p, val |-> <<>>]]
    /\ UNCHANGED <<now, ticks, session, fpVars, sshVars, mainVars>>

\* lines 186-190: open or a write raises IOError, which save_cache swallows;
\* what was written so far stays in the file
SaveFail(p) ==
    /\ pc[p] \in {"open", "write"}
    /\ pc' = [pc EXCEPT ![p] = "return"]
    /\ loc' = [loc EXCEPT ![p].res = [kind |-> "fetched", val |-> loc[p].instances]]
    /\ UNCHANGED <<now, ticks, fs, wrote, session, fpVars, sshVars, mainVars>>

\* line 187: json.dump writes the next chunk at this writer's offset; after
\* the last chunk the file is closed and the listing returned (line 256)
Write(p) ==
    /\ pc[p] = "write"
    /\ LET text == JsonDump([timestamp |-> loc[p].stamp, region |-> loc[p].region,
                             instances |-> loc[p].instances])
           f    == loc[p].cache_file
           last == loc[p].off + 1 = Len(text)
       IN  /\ fs' = [fs EXCEPT ![f] =
                        [exists |-> TRUE, mtime |-> now,
                         content |-> WriteAt(fs[f].content, loc[p].off, text[loc[p].off + 1])]]
           /\ pc' = [pc EXCEPT ![p] = IF last THEN "return" ELSE "write"]
           /\ loc' = [loc EXCEPT ![p].off = loc[p].off + 1,
                                 ![p].res = IF last
                                            THEN [kind |-> "fetched", val |-> loc[p].instances]
                                            ELSE NoRes]
           /\ wrote' = IF wrote[f].st = "writing" /\ wrote[f].by = p
                       THEN IF last
                            THEN [wrote EXCEPT ![f] = [st |-> "saved", by |-> p,
                                                       val |-> loc[p].instances]]
                            ELSE wrote
                       ELSE [wrote EXCEPT ![f] = NotSaved]
    /\ UNCHANGED <<now, ticks, session, fpVars, sshVars, mainVars>>

\* the invocation ends (value returned, exception or sys.exit)
Return(p) ==
    /\ pc[p] = "return"
    /\ pc' = [pc EXCEPT ![p] = "idle"]
    /\ loc' = [loc EXCEPT ![p] = IdleLoc]
    /\ UNCHANGED <<now, ticks, fs, wrote, session, fpVars, sshVars, mainVars>>

Tick(d) ==
    /\ ticks < MaxTicks
    /\ now' = now + d
    /\ ticks' = ticks + 1
    /\ UNCHANGED <<fs, pc, loc, wrote, session, fpVars, sshVars, mainVars>>

\* /tmp is shared: another program leaves its own content in the file
ForeignWrite(f, c) ==
    /\ fs[f].content # c
    /\ fs' = [fs EXCEPT ![f] = [exists |-> TRUE, mtime |-> now, content |-> c]]
    /\ wrote' = [wrote EXCEPT ![f] = NotSaved]
    /\ UNCHANGED <<now, ticks, pc, loc, session, fpVars, sshVars, mainVars>>

\* the cleanup of /tmp removes the file (not while an invocation holds it
\* open for writing: those writes would go to the unlinked file)
Cleanup(f) ==
    /\ fs[f].exists
    /\ \A p \in Procs : ~(pc[p] = "write" /\ loc[p].cache_file = f)
    /\ fs' = [fs EXCEPT ![f] = NoFile]
    /\ wrote' = [wrote EXCEPT ![f] = NotSaved]
    /\ UNCHANGED <<now, ticks, pc, loc, session, fpVars, sshVars, mainVars>>

-----------------------------------------------------------------------------
(* The connection resolver: get_ssh_credentials, guess_ssh_user and        *)
(* ssh_to_instance.                                                        *)

RECURSIVE Strip(_)
Strip(s) ==
    IF s = <<>> THEN s
    ELSE IF Head(s) = " " THEN Strip(Tail(s))
    ELSE IF s[Len(s)] = " " THEN Strip(SubSeq(s, 1, Len(s) - 1))
    ELSE s

\* str.split(','): the pieces between the commas, empty ones included
RECURSIVE SplitFrom(_, _)
SplitFrom(s, piece) ==
    IF s = <<>> THEN <<piece>>
    ELSE IF Head(s) = "," THEN <<piece>> \o SplitFrom(Tail(s), <<>>)
    ELSE SplitFrom(Tail(s), piece \o <<Head(s)>>)

Split(s) == SplitFrom(s, <<>>)

RECURSIVE StripNonEmpty(_)
\* [x.strip() for x in pieces if x.strip()]
StripNonEmpty(pieces) ==
    IF pieces = <<>> THEN <<>>
    ELSE (IF Truthy(Strip(Head(pieces))) THEN <<Strip(Head(pieces))>> ELSE <<>>)
            \o StripNonEmpty(Tail(pieces))

\* Combine with the loops the other way round: for keyfile: for username
Combine_KeysOuter(usernames, keyfiles) ==
    [n \in 1..(Len(usernames) * Len(keyfiles)) |->
        <<usernames[((n - 1) % Len(usernames)) + 1],
          keyfiles[((n - 1) \div Len(usernames)) + 1]>>]

RECURSIVE Combine(_, _)
\* lines 344-347: for username in usernames: for keyfile in keyfiles
Combine(usernames, keyfiles) ==
    IF usernames = <<>> THEN <<>>
    ELSE [k \in 1..Len(keyfiles) |-> <<Head(usernames), keyfiles[k]>>]
            \o Combine(Tail(usernames), keyfiles)

\* lines 327-349
get_ssh_credentials(environ) ==
    LET env_users == Strip(environ.EC2_USERNAME)
        env_keys  == Strip(environ.EC2_SSHKEY)
    IN  IF ~Truthy(env_users) THEN <<>>
        ELSE LET usernames == StripNonEmpty(Split(env_users))
                 keyfiles  == IF Truthy(env_keys) THEN StripNonEmpty(Split(env_keys))
                              ELSE <<None>>
             IN  Combine(usernames, keyfiles)

UpperCase == <<"A", "B", "C", "D", "E", "F", "G", "H", "I", "J", "K", "L", "M",
               "N", "O", "P", "Q", "R", "S", "T", "U", "V", "W", "X", "Y", "Z">>
LowerCase == <<"a", "b", "c", "d", "e", "f", "g", "h", "i", "j", "k", "l", "m",
               "n", "o", "p", "q", "r", "s", "t", "u", "v", "w", "x", "y", "z">>

LowerChar(c) ==
    IF \E i \in 1..Len(UpperCase) : UpperCase[i] = c
    THEN LowerCase[CHOOSE i \in 1..Len(UpperCase) : UpperCase[i] = c]
    ELSE c

Lower(s) == [i \in 1..Len(s) |-> LowerChar(s[i])]

\* sub in s
Contains(sub, s) ==
    \E i \in 0..(Len(s) - Len(sub)) : SubSeq(s, i + 1, i + Len(sub)) = sub

Str_ubuntu   == <<"u", "b", "u", "n", "t", "u">>
Str_centos   == <<"c", "e", "n", "t", "o", "s">>
Str_debian   == <<"d", "e", "b", "i", "a", "n">>
Str_admin    == <<"a", "d", "m", "i", "n">>
Str_ec2_user == <<"e", "c", "2", "-", "u", "s", "e", "r">>

\* guess_ssh_user with the name taken as it is spelled, not lowered
guess_ssh_user_CaseKept(instance) ==
    LET instance_name == instance.name
    IN  IF Contains(Str_ubuntu, instance_name) THEN Str_ubuntu
        ELSE IF Contains(Str_centos, instance_name) THEN Str_centos
        ELSE IF Contains(Str_debian, instance_name) THEN Str_admin
        ELSE Str_ec2_user

\* lines 352-369
guess_ssh_user(instance) ==
    LET instance_name == Lower(instance.name)
    IN  IF Contains(Str_ubuntu, instance_name) THEN Str_ubuntu
        ELSE IF Contains(Str_centos, instance_name) THEN Str_centos
        ELSE IF Contains(Str_debian, instance_name) THEN Str_admin
        ELSE Str_ec2_user

\* lines 392-409
BuildAttempts(instance, user, key_file, environ) ==
    IF Truthy(user) /\ Truthy(key_file) THEN <<<<user, key_file>>>>
    ELSE IF Truthy(user) THEN <<<<user, key_file>>>>
    ELSE LET env_credentials == get_ssh_credentials(environ)
         IN  IF env_credentials = <<>>
             THEN <<<<guess_ssh_user(instance), key_file>>>>
             ELSE env_credentials

\* lines 385-390: "N/A" stands for an address the instance does not have
NA == "N/A"

\* SelectAddress with the private address preferred
SelectAddress_PrivateFirst(instance) ==
    IF instance.private_ip # "N/A" THEN instance.private_ip ELSE instance.public_ip

SelectAddress(instance) ==
    IF instance.public_ip # NA THEN instance.public_ip ELSE instance.private_ip

\* line 443
should_use_tmux(use_tmux, environ) ==
    IF use_tmux # "None" THEN use_tmux = "True" ELSE environ.TMUX

\* KeyMissing with the test of line 425 left out
KeyMissing_Ignored(attempt_key, files) == FALSE

\* line 423-427: the candidate's key is named and is not on disk
KeyMissing(attempt_key, files) == Truthy(attempt_key) /\ attempt_key \notin files

\* The inputs tried.
Names ==
    { <<"w", "e", "b", "-", "U", "b", "u", "n", "t", "u">>,
      <<"C", "e", "n", "t", "O", "S", "-", "d", "e", "b", "i", "a", "n">>,
      <<"d", "e", "b", "i", "a", "n", "1">>,
      <<"d", "b">> }
PublicIps  == {NA, "54.0.0.1"}
PrivateIps == {NA, "10.0.0.5"}
Key1 == <<"k", "1">>
Key2 == <<"k", "2">>
CliUsers == {None, <<"b", "o", "b">>}
CliKeys  == {None, Key1, Key2}
TmuxFlags == {"None", "True", "False"}
EnvUsernames ==
    { <<>>, <<"a">>, <<"a", ",", "b">>, <<" ", "a", " ", ",", " ", ",", "b">>, <<",">> }
EnvSshKeys ==
    { <<>>, <<"k", "1">>, <<"k", "2", ",", " ", "k", "1">>, <<"k", "1", ",", "k", "2">>,
      <<",">> }
\* the key files on disk: Key1 is there, Key2 is not
KeysOnDisk == {Key1}
ExitCodes == {0, 255}

NoSret == [value |-> "none", msg |-> ""]

SshIdle ==
    /\ inst = <<>> /\ cli = <<>> /\ env = <<>> /\ disk = {}
    /\ ip = "" /\ ssh_attempts = <<>> /\ idx = 0 /\ spc = "off"
    /\ runs = <<>> /\ sret = NoSret

SshInit ==
    /\ inst \in [name : Names, public_ip : PublicIps, private_ip : PrivateIps]
    /\ cli \in [user : CliUsers, key_file : CliKeys, use_tmux : TmuxFlags]
    /\ env \in [EC2_USERNAME : EnvUsernames, EC2_SSHKEY : EnvSshKeys, TMUX : BOOLEAN]
    /\ disk = KeysOnDisk
    /\ ip = "" /\ ssh_attempts = <<>> /\ idx = 0 /\ spc = "start"
    /\ runs = <<>> /\ sret = NoSret

\* lines 384-409: the address is selected, or the call ends; the candidates
\* are put together
SshStart ==
    /\ spc = "start"
    /\ IF inst.public_ip = NA /\ inst.private_ip = NA
       THEN /\ sret' = [value |-> "False", msg |-> "no_ip"]
            /\ spc' = "done"
            /\ UNCHANGED <<ip, ssh_attempts, idx>>
       ELSE /\ ip' = SelectAddress(inst)
            /\ ssh_attempts' = BuildAttempts(inst, cli.user, cli.key_file, env)
            /\ idx' = 1
            /\ spc' = "loop"
            /\ UNCHANGED sret
    /\ UNCHANGED <<inst, cli, env, disk, runs, session, cacheVars, fpVars, mainVars>>

Candidate == ssh_attempts[idx]

InLoop == spc = "loop" /\ idx <= Len(ssh_attempts)

\* the command line run for the current candidate (lines 414-435)
Run(kind, rc) ==
    [kind |-> kind, pos |-> idx, user |-> Candidate[1], key |-> Candidate[2],
     ip |-> ip, rc |-> rc]

\* lines 425-427: the key is not on disk, continue
SshSkip ==
    /\ InLoop
    /\ KeyMissing(Candidate[2], disk)
    /\ idx' = idx + 1
    /\ UNCHANGED <<inst, cli, env, disk, ip, ssh_attempts, spc, runs, sret,
                   session, cacheVars, fpVars, mainVars>>

\* SshTmux that looks at the status and goes on to the next candidate when
\* it is not 0
SshTmux_ChecksStatus(rc) ==
    /\ InLoop
    /\ ~KeyMissing(Candidate[2], disk)
    /\ should_use_tmux(cli.use_tmux, env)
    /\ runs' = Append(runs, Run("tmux", rc))
    /\ IF rc = 0
       THEN sret' = [value |-> "True", msg |-> "tmux_window"] /\ spc' = "done" /\ idx' = idx
       ELSE idx' = idx + 1 /\ UNCHANGED <<sret, spc>>
    /\ UNCHANGED <<inst, cli, env, disk, ip, ssh_attempts, session, cacheVars, fpVars, mainVars>>

\* lines 445-453: the command goes to a new tmux window, return True
SshTmux(rc) ==
    /\ InLoop
    /\ ~KeyMissing(Candidate[2], disk)
    /\ should_use_tmux(cli.use_tmux, env)
    /\ runs' = Append(runs, Run("tmux", rc))
    /\ sret' = [value |-> "True", msg |-> "tmux_window"]
    /\ spc' = "done"
    /\ UNCHANGED <<inst, cli, env, disk, ip, ssh_attempts, idx, session, cacheVars, fpVars, mainVars>>

\* SshConnectOk with the return of line 461 left out
SshConnectOk_GoesOn ==
    /\ InLoop
    /\ ~KeyMissing(Candidate[2], disk)
    /\ ~should_use_tmux(cli.use_tmux, env)
    /\ runs' = Append(runs, Run("ssh", 0))
    /\ idx' = idx + 1
    /\ UNCHANGED <<inst, cli, env, disk, ip, ssh_attempts, spc, sret,
                   session, cacheVars, fpVars, mainVars>>

\* lines 455-461: ssh ran and ended with status 0, return True
SshConnectOk ==
    /\ InLoop
    /\ ~KeyMissing(Candidate[2], disk)
    /\ ~should_use_tmux(cli.use_tmux, env)
    /\ runs' = Append(runs, Run("ssh", 0))
    /\ sret' = [value |-> "True", msg |-> ""]
    /\ spc' = "done"
    /\ UNCHANGED <<inst, cli, env, disk, ip, ssh_attempts, idx, session, cacheVars, fpVars, mainVars>>

\* SshConnectFail that tries the same candidate again
SshConnectFail_Retries(rc) ==
    /\ InLoop
    /\ rc # 0
    /\ ~KeyMissing(Candidate[2], disk)
    /\ ~should_use_tmux(cli.use_tmux, env)
    /\ runs' = Append(runs, Run("ssh", rc))
    /\ UNCHANGED <<inst, cli, env, disk, ip, ssh_attempts, idx, spc, sret,
                   session, cacheVars, fpVars, mainVars>>

\* lines 455-466: ssh ran and ended with another status; with or without the
\* message of line 465 the loop goes on with the next candidate
SshConnectFail(rc) ==
    /\ InLoop
    /\ rc # 0
    /\ ~KeyMissing(Candidate[2], disk)
    /\ ~should_use_tmux(cli.use_tmux, env)
    /\ runs' = Append(runs, Run("ssh", rc))
    /\ idx' = idx + 1
    /\ UNCHANGED <<inst, cli, env, disk, ip, ssh_attempts, spc, sret,
                   session, cacheVars, fpVars, mainVars>>

\* lines 468-470: the loop is over, return False
SshExhausted ==
    /\ spc = "loop"
    /\ idx > Len(ssh_attempts)
    /\ sret' = [value |-> "False", msg |-> "no_credentials_worked"]
    /\ spc' = "done"
    /\ UNCHANGED <<inst, cli, env, disk, ip, ssh_attempts, idx, runs,
                   session, cacheVars, fpVars, mainVars>>

-----------------------------------------------------------------------------
(* The ssh command of main, with find_instance_by_name.                    *)

\* find_instance_by_name with the exact matches not looked for
find_instance_by_name_PartialOnly(pattern, instances) ==
    LET partial(i) == Contains(Lower(pattern), Lower(i.name))
    IN  SelectSeq(instances, partial)

\* lines 289-315; instances is what list_ec2_instances returned at line 303,
\* SelectSeq the list comprehension [i for i in instances if ...]
find_instance_by_name(pattern, instances) ==
    LET exact(i)   == Lower(i.name) = Lower(pattern)
        partial(i) == Contains(Lower(pattern), Lower(i.name))
        exact_matches == SelectSeq(instances, exact)
    IN  IF exact_matches # <<>> THEN exact_matches
        ELSE SelectSeq(instances, partial)

\* The inputs tried.
MaxListed == 3
MainNames ==
    { <<"w", "e", "b">>, <<"W", "e", "b", "-", "1">>, <<"d", "b">> }
Patterns ==
    { <<>>, <<"w", "e", "b">>, <<"W", "E", "B">>, <<"b">>, <<"x">> }
\* the instance records of lines 240-248, the id being the place in the listing
Described(n) ==
    { l \in [1..n -> [name : MainNames, id : 1..n, status : Statuses,
                      public_ip : {"54.0.0.1"}, private_ip : {NA}]] :
        \A k \in 1..n : l[k].id = k }
Responses == {"y", "Y", "n", ""}
MainCli == [user : CliUsers, key_file : {None}, use_tmux : {"None", "True"}]
MainEnv ==
    { [EC2_USERNAME |-> <<"a">>, EC2_SSHKEY |-> <<"k", "2", ",", " ", "k", "1">>,
       TMUX |-> FALSE] }

NoExit == [code |-> -1, msg |-> ""]

MainIdle ==
    /\ listed = <<>> /\ name_pattern = <<>> /\ matches = <<>>
    /\ mpc = "off" /\ mexit = NoExit

\* line 767: the ssh command is entered with the arguments parsed
MainInit ==
    /\ listed \in UNION {Described(n) : n \in 0..MaxListed}
    /\ name_pattern \in Patterns
    /\ matches = <<>>
    /\ mpc = "start" /\ mexit = NoExit
    /\ inst = <<>>
    /\ cli \in MainCli
    /\ env \in MainEnv
    /\ disk = KeysOnDisk
    /\ ip = "" /\ ssh_attempts = <<>> /\ idx = 0 /\ spc = "off"
    /\ runs = <<>> /\ sret = NoSret

\* lines 769-776: no name, exit 1; else find_instance_by_name
MainFind ==
    /\ mpc = "start"
    /\ IF ~Truthy(name_pattern)
       THEN /\ mpc' = "exit"
            /\ mexit' = [code |-> 1, msg |-> "name_required"]
            /\ UNCHANGED matches
       ELSE /\ matches' = find_instance_by_name(name_pattern, listed)
            /\ mpc' = "found"
            /\ UNCHANGED mexit
    /\ UNCHANGED <<listed, name_pattern, sshVars, session, cacheVars, fpVars>>

\* lines 303, 258-260: the listing inside find_instance_by_name fails, exit 1
MainListFails ==
    /\ mpc = "start"
    /\ Truthy(name_pattern)
    /\ mpc' = "exit"
    /\ mexit' = [code |-> 1, msg |-> "list_failed"]
    /\ UNCHANGED <<listed, name_pattern, matches, sshVars, session, cacheVars, fpVars>>

\* lines 804-808: ssh_to_instance(instance, ...) is called
CallSsh(instance) ==
    /\ inst' = instance
    /\ spc' = "start"
    /\ mpc' = "ssh"
    /\ UNCHANGED <<mexit, cli, env, disk, ip, ssh_attempts, idx, runs, sret>>

\* lines 778-795: no match or several, exit 1; one match that is running goes
\* to ssh_to_instance, one that is not to the question of line 793
MainSelect ==
    /\ mpc = "found"
    /\ IF matches = <<>>
       THEN /\ mpc' = "exit"
            /\ mexit' = [code |-> 1, msg |-> "no_instance"]
            /\ UNCHANGED sshVars
       ELSE IF Len(matches) > 1
       THEN /\ mpc' = "exit"
            /\ mexit' = [code |-> 1, msg |-> "multiple"]
            /\ UNCHANGED sshVars
       ELSE IF matches[1].status # "running"
       THEN /\ mpc' = "confirm"
            /\ UNCHANGED <<mexit, sshVars>>
       ELSE CallSsh(matches[1])
    /\ UNCHANGED <<listed, name_pattern, matches, session, cacheVars, fpVars>>

\* lines 793-795: anything but y or Y ends the command with exit 0
MainConfirm(response) ==
    /\ mpc = "confirm"
    /\ IF response \in {"y", "Y"}
       THEN CallSsh(matches[1])
       ELSE /\ mpc' = "exit"
            /\ mexit' = [code |-> 0, msg |-> "declined"]
            /\ UNCHANGED sshVars
    /\ UNCHANGED <<listed, name_pattern, matches, session, cacheVars, fpVars>>

\* line 808: ssh_to_instance returned, main ends
MainEnd ==
    /\ mpc = "ssh"
    /\ spc = "done"
    /\ mpc' = "exit"
    /\ mexit' = [code |-> 0, msg |-> "end"]
    /\ UNCHANGED <<listed, name_pattern, matches, sshVars, session, cacheVars, fpVars>>

-----------------------------------------------------------------------------
(* Specifications *)

NoSession == [region_name |-> None, has_creds |-> FALSE,
              access_key |-> None, secret_key |-> None]

\* the cache used by one invocation after another, with the clock and the
\* other users of /tmp
Init == CacheIdle /\ session = CacheSession /\ FpIdle /\ SshIdle /\ MainIdle

Next ==
    \/ \E a \in CallArgs, uc \in BOOLEAN : Call("p1", a, uc)
    \/ Load("p1")
    \/ \E l \in Listings : FetchOk("p1", l)
    \/ FetchFail("p1")
    \/ OpenOk("p1")
    \/ SaveFail("p1")
    \/ Write("p1")
    \/ Return("p1")
    \/ \E d \in TickSteps : Tick(d)
    \/ \E f \in CacheFiles, c \in ForeignContents : ForeignWrite(f, c)
    \/ \E f \in CacheFiles : Cleanup(f)

Spec == Init /\ [][Next]_vars

\* the cache used by two invocations at once: no lock is taken on the file
NextRace ==
    \/ \E p \in Procs, a \in CallArgs, uc \in BOOLEAN : Call(p, a, uc)
    \/ \E p \in Procs : Load(p)
    \/ \E p \in Procs, l \in Listings : FetchOk(p, l)
    \/ \E p \in Procs : FetchFail(p)
    \/ \E p \in Procs : OpenOk(p)
    \/ \E p \in Procs : SaveFail(p)
    \/ \E p \in Procs : Write(p)
    \/ \E p \in Procs : Return(p)

SpecRace == Init /\ [][NextRace]_vars

\* get_cache_filename on pairs of argument triples
InitFp == FpInit /\ session \in Sessions /\ CacheIdle /\ SshIdle /\ MainIdle

NextFp == FpDerive

SpecFp == InitFp /\ [][NextFp]_vars

\* ssh_to_instance
InitSsh == SshInit /\ session = NoSession /\ CacheIdle /\ FpIdle /\ MainIdle

NextSsh ==
    \/ SshStart
    \/ SshSkip
    \/ \E rc \in ExitCodes : SshTmux(rc)
    \/ SshConnectOk
    \/ \E rc \in ExitCodes : SshConnectFail(rc)
    \/ SshExhausted

SpecSsh == InitSsh /\ [][NextSsh]_vars

\* the ssh command of main, with ssh_to_instance called from it
InitMain == MainInit /\ session = NoSession /\ CacheIdle /\ FpIdle

NextMain ==
    \/ MainFind
    \/ MainListFails
    \/ MainSelect
    \/ \E response \in Responses : MainConfirm(response)
    \/ MainEnd
    \/ SshStart
    \/ SshSkip
    \/ \E rc \in ExitCodes : SshTmux(rc)
    \/ SshConnectOk
    \/ \E rc \in ExitCodes : SshConnectFail(rc)
    \/ SshExhausted

SpecMain == InitMain /\ [][NextMain]_vars

-----------------------------------------------------------------------------
(* Properties of the instance cache *)

FileOf(p) == fs[loc[p].cache_file]

\* the step in which list_ec2_instances is entered by p
Enters(p) == pc[p] = "idle" /\ pc'[p] # "idle"

\* the step in which load_cache runs in p
Loads(p) == pc[p] = "load" /\ pc'[p] # "load"

\* any step of p's invocation that is under way
Steps(p) == pc[p] # "idle" /\ (pc'[p] # pc[p] \/ loc'[p] # loc[p])

Cached(p) == pc[p] = "return" /\ loc[p].res.kind = "cached"

\* C1, as stated: a read returns the stored sequence only if the timestamp
\* recorded in the entry is less than ttl before the time of the read.
C1_HitOnlyWithinTtlOfEntryTimestamp ==
    [][\A p \in Procs :
          (/\ Loads(p)
           /\ loc'[p].res.kind = "cached"
           /\ JsonLoad(FileOf(p).content).kind = "object")
          => (loc[p].checked_at - FileOf(p).content[1].ts) < Ttl]_vars

\* C1, amended: the age that counts is that of the file.  With use_cache the
\* call goes on to load_cache iff the file exists and is modified less than
\* ttl ago, and to the fetch otherwise; load_cache returns the instances of a
\* well-formed entry, is a miss when the file is gone, and nothing but what
\* the file holds is ever returned as cached.
C1_HitIffFreshByMtime ==
    [][\A p \in Procs :
          /\ (Enters(p) /\ loc'[p].use_cache)
                => LET file == fs[loc'[p].cache_file]
                   IN  pc'[p] = IF file.exists /\ (now - file.mtime) < Ttl
                                THEN "load" ELSE "fetch"
          /\ Loads(p)
                => LET data == JsonLoad(FileOf(p).content)
                   IN  /\ (FileOf(p).exists /\ data.kind = "object")
                            => /\ pc'[p] = "return"
                               /\ loc'[p].res = [kind |-> "cached", val |-> data.instances]
                       /\ ~FileOf(p).exists => pc'[p] = "fetch"
                       /\ loc'[p].res.kind = "cached"
                            => FileOf(p).exists /\ loc'[p].res.val = data.instances
          /\ (pc'[p] = "return" /\ loc'[p].res.kind = "cached") => (Loads(p) \/ Cached(p))]_vars

\* a hit on an entry whose own timestamp is ttl or more before the read
C1_Witness ==
    \E p \in Procs :
        /\ Cached(p)
        /\ loc[p].res.val # <<>>
        /\ JsonLoad(FileOf(p).content).kind = "object"
        /\ JsonLoad(FileOf(p).content).instances = loc[p].res.val
        /\ (loc[p].checked_at - FileOf(p).content[1].ts) >= Ttl

\* C2: a read within the TTL of a save_cache(file, S, region) that ran to its
\* end, with no other write to the file, returns exactly S.
C2_ReadAfterWriteReturnsWritten ==
    [][\A p \in Procs :
          /\ (/\ Enters(p) /\ loc'[p].use_cache
              /\ wrote[loc'[p].cache_file].st = "saved"
              /\ (now - fs[loc'[p].cache_file].mtime) < Ttl)
                => pc'[p] = "load"
          /\ (Loads(p) /\ wrote[loc[p].cache_file].st = "saved")
                => /\ pc'[p] = "return"
                   /\ loc'[p].res = [kind |-> "cached",
                                     val |-> wrote[loc[p].cache_file].val]]_vars

C2_Witness ==
    \E p \in Procs :
        /\ Cached(p)
        /\ wrote[loc[p].cache_file].st = "saved"
        /\ loc[p].res.val = wrote[loc[p].cache_file].val
        /\ Len(loc[p].res.val) >= 2

\* C3, as stated: a call that bypasses the cache has written what it fetched
\* to the cache file when it returns.
C3_BypassStillWrites ==
    \A p \in Procs :
        (pc[p] = "return" /\ ~loc[p].use_cache /\ loc[p].res.kind = "fetched")
        => load_cache(FileOf(p)) = [outcome |-> "value", val |-> loc[p].res.val]

\* C3, amended: a call that bypasses the cache goes to the fetch whatever the
\* file holds, never returns cached data, and no step of it changes a file.
C3_BypassNeverReadsNorWrites ==
    [][\A p \in Procs :
          /\ (Enters(p) /\ ~loc'[p].use_cache) => pc'[p] = "fetch"
          /\ (Steps(p) /\ ~loc[p].use_cache)
                => /\ fs' = fs
                   /\ pc'[p] \in {"return", "idle"}
                   /\ loc'[p].res.kind \in {"fetched", "exit", "none"}]_vars

\* a bypassing call returns what it fetched while the file holds a fresh entry
\* with other instances
C3_Witness ==
    \E p \in Procs :
        /\ pc[p] = "return" /\ ~loc[p].use_cache /\ loc[p].res.kind = "fetched"
        /\ is_cache_valid(FileOf(p), now)
        /\ load_cache(FileOf(p)).outcome = "value"
        /\ load_cache(FileOf(p)).val # loc[p].res.val
        /\ load_cache(FileOf(p)).val # <<>>

\* C4: a read of a file that is missing or holds anything but a well-formed
\* entry is a miss: the call goes on to the fetch, and nothing is raised.
C4_ReadFailureIsMiss ==
    [][\A p \in Procs :
          (Loads(p) /\ (~FileOf(p).exists \/ JsonLoad(FileOf(p).content).kind # "object"))
          => pc'[p] = "fetch"]_vars

\* C6: what a call returns from the cache is the whole result of one listing
\* call, also when two invocations write the file at once.
C6_CachedIsOneListing ==
    \A p \in Procs : Cached(p) => loc[p].res.val \in Listings

-----------------------------------------------------------------------------
(* Properties of get_cache_filename *)

FullyGiven(t) == Truthy(t.region) /\ Truthy(t.access_key) /\ Truthy(t.secret_key)

\* C5: two argument triples that differ in the region, the access key or the
\* secret key get different file names (the hash taken to be free of
\* collisions).  Stated for triples with all three values given.
C5_DistinctTriplesDistinctNames ==
    (fpOut # <<>> /\ FullyGiven(fpIn[1]) /\ FullyGiven(fpIn[2]) /\ fpIn[1] # fpIn[2])
    => fpOut[1] # fpOut[2]

-----------------------------------------------------------------------------
(* Properties of ssh_to_instance *)

NoAddress == inst.public_ip = "N/A" /\ inst.private_ip = "N/A"

\* no tmux window is used: every candidate is tried with ssh itself
Direct == spc # "off" /\ (IF cli.use_tmux = "None" THEN ~env.TMUX ELSE cli.use_tmux = "False")

RunPositions == {runs[k].pos : k \in 1..Len(runs)}

OnDiskOrNoKey(key) == key = <<>> \/ key \in disk

\* C7: the target is the public address when the instance has one, else the
\* private one; with neither the call returns False at once and runs nothing.
C7_AddressSelection ==
    /\ (spc \in {"loop", "done"} /\ ~NoAddress)
          => /\ ip = IF inst.public_ip # "N/A" THEN inst.public_ip ELSE inst.private_ip
             /\ \A k \in 1..Len(runs) : runs[k].ip = ip
    /\ (spc # "start" /\ spc # "off" /\ NoAddress)
          => /\ spc = "done"
             /\ sret = [value |-> "False", msg |-> "no_ip"]
             /\ runs = <<>>
    /\ spc = "start" => runs = <<>>

\* public_ip "N/A", private_ip "10.0.0.5": the connection went to 10.0.0.5
C7_Witness ==
    /\ inst.public_ip = "N/A" /\ inst.private_ip = "10.0.0.5"
    /\ Len(runs) >= 1 /\ runs[1].ip = "10.0.0.5"

\* C8: without tmux the candidates are visited in list order; one whose key is
\* named and is not on disk is passed over without a connection attempt, and
\* every other one visited is attempted.
C8_MissingKeyIsSkipped ==
    Direct =>
        /\ \A k \in 1..Len(runs) :
              /\ runs[k].kind = "ssh"
              /\ runs[k].pos \in 1..Len(ssh_attempts)
              /\ <<runs[k].user, runs[k].key>> = ssh_attempts[runs[k].pos]
              /\ OnDiskOrNoKey(runs[k].key)
        /\ \A j, k \in 1..Len(runs) : j < k => runs[j].pos < runs[k].pos
        /\ spc = "loop" =>
              \A i \in 1..(idx - 1) :
                  (i \in RunPositions) <=> OnDiskOrNoKey(ssh_attempts[i][2])

\* a candidate with a missing key was passed over and a later one attempted
C8_Witness ==
    /\ Direct
    /\ \E i, j \in 1..Len(ssh_attempts) :
          /\ i < j
          /\ ~OnDiskOrNoKey(ssh_attempts[i][2])
          /\ i \notin RunPositions
          /\ j \in RunPositions

\* C9: without tmux the first attempt that ends with status 0 is the last
\* one: the call returns True, and it returns True in no other way.
C9_FirstSuccessEndsLoop ==
    Direct =>
        /\ \A k \in 1..Len(runs) :
              runs[k].rc = 0 => /\ k = Len(runs)
                                /\ spc = "done"
                                /\ sret.value = "True"
                                /\ idx = runs[k].pos
        /\ sret.value = "True" => (runs # <<>> /\ runs[Len(runs)].rc = 0)

\* success on the second attempt, with candidates left that were never tried
C9_Witness ==
    /\ Direct
    /\ sret.value = "True"
    /\ Len(runs) = 2
    /\ runs[2].pos < Len(ssh_attempts)

\* C10: without tmux, when no attempt ends with status 0 the call returns
\* False after one pass over the list: no candidate is attempted twice, there
\* are no more attempts than candidates, a failed attempt moves on to the next
\* candidate, and the end of the list is reached whether the last candidate
\* was passed over or failed.
C10_SinglePassThenFailure ==
    (Direct /\ ~NoAddress /\ spc # "start") =>
        /\ Len(runs) <= Len(ssh_attempts)
        /\ \A j, k \in 1..Len(runs) : j # k => runs[j].pos # runs[k].pos
        /\ idx \in 1..(Len(ssh_attempts) + 1)
        /\ \A k \in 1..Len(runs) : runs[k].rc # 0 => runs[k].pos < idx
        /\ (spc = "done" /\ \A k \in 1..Len(runs) : runs[k].rc # 0)
              => /\ sret = [value |-> "False", msg |-> "no_credentials_worked"]
                 /\ idx = Len(ssh_attempts) + 1
        /\ sret.value = "False" => \A k \in 1..Len(runs) : runs[k].rc # 0

\* the call returned False with the last candidate passed over for its key
\* and an earlier one attempted and failed
C10_Witness ==
    /\ Direct /\ ~NoAddress
    /\ spc = "done" /\ sret.value = "False"
    /\ Len(ssh_attempts) >= 2
    /\ ~OnDiskOrNoKey(ssh_attempts[Len(ssh_attempts)][2])
    /\ runs # <<>>

\* the command goes to a tmux window: --tmux, or $TMUX set and no --no-tmux
Muxed == spc # "off" /\ ~Direct

\* C11, as stated: with tmux the call hands the first candidate of the list
\* to a new window and returns True.
C11_TmuxUsesFirstOfList ==
    (Muxed /\ ~NoAddress /\ spc = "done")
    => /\ sret.value = "True"
       /\ Len(runs) = 1
       /\ runs[1].pos = 1

\* C11, amended: with tmux the candidates whose key is named and is not on
\* disk are passed over first; the first candidate left goes to a new window
\* and the call returns True at once, whatever status the tmux command ended
\* with, and no later candidate is used.  When every candidate is passed over
\* no window is opened and the call returns False.
C11_TmuxUsesFirstUsableCandidate ==
    (Muxed /\ ~NoAddress /\ spc # "start") =>
        /\ Len(runs) <= 1
        /\ runs # <<>> =>
              /\ runs[1].kind = "tmux"
              /\ spc = "done"
              /\ sret = [value |-> "True", msg |-> "tmux_window"]
              /\ runs[1].pos \in 1..Len(ssh_attempts)
              /\ <<runs[1].user, runs[1].key>> = ssh_attempts[runs[1].pos]
              /\ OnDiskOrNoKey(runs[1].key)
              /\ \A i \in 1..(runs[1].pos - 1) : ~OnDiskOrNoKey(ssh_attempts[i][2])
        /\ (spc = "done" /\ runs = <<>>) =>
              /\ sret = [value |-> "False", msg |-> "no_credentials_worked"]
              /\ \A i \in 1..Len(ssh_attempts) : ~OnDiskOrNoKey(ssh_attempts[i][2])
        /\ spc = "loop" => runs = <<>>

\* the first candidate was passed over for its key, the second one went to a
\* window whose command ended with status 255, True was returned and a third
\* candidate was never used
C11_Witness ==
    /\ Muxed
    /\ spc = "done" /\ sret.value = "True"
    /\ Len(ssh_attempts) >= 3
    /\ Len(runs) = 1
    /\ runs[1].pos = 2
    /\ runs[1].rc = 255

\* the names a variable of the environment holds, written out for each value
\* tried
NamedIn(value) ==
    CASE value = <<>> -> <<>>
      [] value = <<",">> -> <<>>
      [] value = <<"a">> -> << <<"a">> >>
      [] value = <<"a", ",", "b">> -> << <<"a">>, <<"b">> >>
      [] value = <<" ", "a", " ", ",", " ", ",", "b">> -> << <<"a">>, <<"b">> >>
      [] value = <<"k", "1">> -> << <<"k", "1">> >>
      [] value = <<"k", "2", ",", " ", "k", "1">> -> << <<"k", "2">>, <<"k", "1">> >>
      [] value = <<"k", "1", ",", "k", "2">> -> << <<"k", "1">>, <<"k", "2">> >>

\* the candidates are put together and no user was given with --user
FromEnvironment == spc \in {"loop", "done"} /\ ~NoAddress /\ cli.user = <<>>

\* C12: with no --user, usernames u1..um in EC2_USERNAME and key files k1..kn
\* in EC2_SSHKEY, the candidates are (u1,k1) .. (u1,kn), (u2,k1) .. (um,kn) in
\* this order; with usernames and an empty EC2_SSHKEY they are (u1, no key)
\* .. (um, no key).  The key given with --key is in none of them.  (A key
\* variable that holds separators only names no key file: the one candidate
\* is then the fallback of lines 406-409.)
C12_CrossProductUsersOuter ==
    FromEnvironment =>
        LET users == NamedIn(env.EC2_USERNAME)
            keys  == NamedIn(env.EC2_SSHKEY)
        IN  /\ (users # <<>> /\ keys # <<>>) =>
                  /\ Len(ssh_attempts) = Len(users) * Len(keys)
                  /\ \A i \in 1..Len(users), j \in 1..Len(keys) :
                        ssh_attempts[(i - 1) * Len(keys) + j] = <<users[i], keys[j]>>
            /\ (users # <<>> /\ env.EC2_SSHKEY = <<>>) =>
                  /\ Len(ssh_attempts) = Len(users)
                  /\ \A i \in 1..Len(users) : ssh_attempts[i] = <<users[i], <<>>>>
            /\ (users # <<>> /\ keys = <<>> /\ env.EC2_SSHKEY # <<>>) =>
                  /\ Len(ssh_attempts) = 1
                  /\ ssh_attempts[1][2] = cli.key_file

\* EC2_USERNAME " a , ,b", EC2_SSHKEY "k2, k1" and --key k1: the candidates
\* are (a,k2), (a,k1), (b,k2), (b,k1)
C12_Witness ==
    /\ FromEnvironment
    /\ cli.key_file = Key1
    /\ env.EC2_USERNAME = <<" ", "a", " ", ",", " ", ",", "b">>
    /\ ssh_attempts = << <<<<"a">>, Key2>>, <<<<"a">>, Key1>>,
                         <<<<"b">>, Key2>>, <<<<"b">>, Key1>> >>

\* the username expected for each instance name tried
GuessFor(name) ==
    CASE name = <<"w", "e", "b", "-", "U", "b", "u", "n", "t", "u">> ->
            <<"u", "b", "u", "n", "t", "u">>
      [] name = <<"C", "e", "n", "t", "O", "S", "-", "d", "e", "b", "i", "a", "n">> ->
            <<"c", "e", "n", "t", "o", "s">>
      [] name = <<"d", "e", "b", "i", "a", "n", "1">> -> <<"a", "d", "m", "i", "n">>
      [] name = <<"d", "b">> -> <<"e", "c", "2", "-", "u", "s", "e", "r">>

\* C13, as stated: with no --user and neither EC2_USERNAME nor EC2_SSHKEY the
\* one candidate is the username guessed from the instance name, with no key.
C13_GuessedUserWithNoKey ==
    (FromEnvironment /\ env.EC2_USERNAME = <<>> /\ env.EC2_SSHKEY = <<>>)
    => ssh_attempts = << <<GuessFor(inst.name), <<>>>> >>

\* C13, amended: with no --user and no username in EC2_USERNAME, whatever
\* EC2_SSHKEY holds, the one candidate is the username guessed from the
\* instance name (case ignored: "ubuntu" gives ubuntu, else "centos" centos,
\* else "debian" admin, else ec2-user) with the key given with --key, which
\* is no key only when --key was not given.
C13_GuessedUserWithCliKey ==
    (FromEnvironment /\ NamedIn(env.EC2_USERNAME) = <<>>)
    => ssh_attempts = << <<GuessFor(inst.name), cli.key_file>> >>

\* instance "CentOS-debian", nothing in the environment, --key k1: the one
\* candidate is (centos, k1)
C13_Witness ==
    /\ FromEnvironment
    /\ env.EC2_USERNAME = <<>> /\ env.EC2_SSHKEY = <<>>
    /\ cli.key_file = Key1
    /\ inst.name = <<"C", "e", "n", "t", "O", "S", "-", "d", "e", "b", "i", "a", "n">>
    /\ ssh_attempts = << <<Str_centos, Key1>> >>

-----------------------------------------------------------------------------
(* Properties of the ssh command of main *)

\* the names that are the pattern but for case, for each pattern tried
ExactFor(pattern) ==
    CASE pattern = <<"w", "e", "b">> -> { <<"w", "e", "b">> }
      [] pattern = <<"W", "E", "B">> -> { <<"w", "e", "b">> }
      [] pattern = <<"b">> -> {}
      [] pattern = <<"x">> -> {}

\* the names that hold the pattern but for case, for each pattern tried
PartialFor(pattern) ==
    CASE pattern = <<"w", "e", "b">> -> { <<"w", "e", "b">>, <<"W", "e", "b", "-", "1">> }
      [] pattern = <<"W", "E", "B">> -> { <<"w", "e", "b">>, <<"W", "e", "b", "-", "1">> }
      [] pattern = <<"b">> -> { <<"w", "e", "b">>, <<"W", "e", "b", "-", "1">>, <<"d", "b">> }
      [] pattern = <<"x">> -> {}

\* find_instance_by_name has returned
Found == mpc \in {"found", "confirm", "ssh"}
            \/ (mpc = "exit" /\ mexit.msg \notin {"name_required", "list_failed"})

\* C14: find_instance_by_name returns, in the order of the listing, the
\* instances whose name is the pattern but for case when there is one, and
\* else those whose name holds the pattern but for case; with more than one
\* instance returned the ssh command ends with exit status 1 and the request
\* to be more specific, ssh_to_instance is not called and nothing is run.
\* ssh_to_instance is only ever called with the one instance returned.
C14_ExactFirstAndNoChoiceAmongSeveral ==
    /\ Found =>
          LET exact == {k \in 1..Len(listed) : listed[k].name \in ExactFor(name_pattern)}
              partial == {k \in 1..Len(listed) : listed[k].name \in PartialFor(name_pattern)}
              wanted == IF exact # {} THEN exact ELSE partial
          IN  /\ Len(matches) = Cardinality(wanted)
              /\ \A k \in 1..Len(matches) :
                    /\ matches[k].id \in wanted
                    /\ matches[k] = listed[matches[k].id]
              /\ \A j, k \in 1..Len(matches) : j < k => matches[j].id < matches[k].id
    /\ (Found /\ Len(matches) > 1 /\ mpc # "found") =>
          /\ mpc = "exit"
          /\ mexit = [code |-> 1, msg |-> "multiple"]
          /\ spc = "off" /\ inst = <<>> /\ runs = <<>>
    /\ (mpc # "off" /\ spc # "off") => (Len(matches) = 1 /\ inst = matches[1])
    /\ (mpc # "off" /\ spc = "off") => runs = <<>>

\* pattern "WEB" and the listing web, Web-1, web: the two instances named web
\* are returned, Web-1 is not, and the command ended asking to be more specific
C14_Witness ==
    /\ mpc = "exit" /\ mexit.msg = "multiple"
    /\ name_pattern = <<"W", "E", "B">>
    /\ Len(listed) = 3
    /\ listed[2].name = <<"W", "e", "b", "-", "1">>
    /\ Len(matches) = 2
    /\ matches[1].id = 1 /\ matches[2].id = 3

-----------------------------------------------------------------------------
(* More properties of the instance cache *)

\* C15: a call served from the cache makes no describe_instances call and no
\* step of it changes a file, neither content nor modification time; so a
\* call with use_cache made ttl or more after the file was last written goes
\* to the fetch, however many hits came in between.  A call whose
\* describe_instances call fails ends without a step that changes a file.
C15_HitAndFailedFetchLeaveTheCacheAlone ==
    [][\A p \in Procs :
          /\ Enters(p) => fs' = fs
          /\ (Loads(p) /\ loc'[p].res.kind = "cached")
                => /\ fs' = fs
                   /\ pc'[p] = "return"
                   /\ loc'[p].api_calls = 0
          /\ (Cached(p) /\ pc'[p] # pc[p])
                => /\ fs' = fs
                   /\ pc'[p] = "idle"
                   /\ loc[p].api_calls = 0
          /\ (Enters(p) /\ loc'[p].use_cache /\ fs[loc'[p].cache_file].exists
              /\ now >= fs[loc'[p].cache_file].mtime + Ttl)
                => pc'[p] = "fetch"
          /\ (pc[p] = "fetch" /\ loc'[p].res.kind = "exit")
                => /\ fs' = fs
                   /\ pc'[p] = "return"
                   /\ loc'[p].api_calls = 1
          /\ (pc[p] = "return" /\ loc[p].res.kind = "exit" /\ pc'[p] # pc[p])
                => /\ fs' = fs
                   /\ pc'[p] = "idle"]_vars

\* a hit ttl - 1 after the save: no describe_instances call, and the file is
\* as old as before
C15_Witness ==
    \E p \in Procs :
        /\ Cached(p)
        /\ loc[p].api_calls = 0
        /\ wrote[loc[p].cache_file].st = "saved"
        /\ loc[p].checked_at - FileOf(p).mtime = Ttl - 1
        /\ now - FileOf(p).mtime >= Ttl

=============================================================================
